---- MODULE Spec2Model ----
(***************************************************************************)
(* A model of pdfo (src/pdfo.ts): the two exported operations embed() and  *)
(* supportsPDFs(), the helpers they call, the DOM containers embed()       *)
(* writes to, the console, the navigator the capability checks read and    *)
(* the caller-owned pdfOpenParams object.                                  *)
(*                                                                         *)
(* Strings are sequences of symbols.  A symbol is a single character       *)
(* ("$", "&", "#", "1") or a chunk of text that the operations of the      *)
(* program treat as a unit: a run of characters that holds none of the     *)
(* characters an operation looks for ("Download PDF"), or exactly one      *)
(* token a regular expression of the program matches ("[url]", "Mobi").    *)
(***************************************************************************)
EXTENDS Integers, Sequences, FiniteSets, TLC

VARIABLES
    navigator,   \* window.navigator, with "hasPromise" for typeof Promise
    document,    \* the containers of the page: children and class list
    heap,        \* the caller-owned object that may be passed as pdfOpenParams
    console,     \* the lines written by console.log, oldest first
    calls,       \* number of embed() calls made so far
    last,        \* the most recent embed() call: arguments and outcome
    out          \* the most recent result of a value-returning operation

vars == <<navigator, document, heap, console, calls, last, out>>

(***************************************************************************)
(* JavaScript values                                                       *)
(***************************************************************************)
Undefined == [type |-> "undefined"]
Null == [type |-> "null"]
Bool(b) == [type |-> "boolean", bool |-> b]
Str(s) == [type |-> "string", str |-> s]
Num(n) == [type |-> "number", num |-> n]
Ref(r) == [type |-> "object", ref |-> r]

\* ToBoolean, as applied by ||, ! and if
Truthy(v) ==
    CASE v.type = "undefined" -> FALSE
      [] v.type = "null" -> FALSE
      [] v.type = "boolean" -> v.bool
      [] v.type = "string" -> v.str # <<>>
      [] v.type = "number" -> v.num # 0
      [] OTHER -> TRUE

\* a || b
OrElse(a, b) == IF Truthy(a) THEN a ELSE b

Digits == <<"0", "1", "2", "3", "4", "5", "6", "7", "8", "9">>

RECURSIVE NumberToString(_)
NumberToString(n) ==
    IF n < 10 THEN <<Digits[n + 1]>>
    ELSE NumberToString(n \div 10) \o <<Digits[(n % 10) + 1]>>

\* String(value)
StringOf(v) ==
    CASE v.type = "string" -> v.str
      [] v.type = "number" -> NumberToString(v.num)
      [] v.type = "boolean" -> IF v.bool THEN <<"true">> ELSE <<"false">>
      [] v.type = "null" -> <<"null">>
      [] OTHER -> <<"undefined">>

\* The characters encodeURIComponent escapes, among the symbols of the model
Escaped ==
    [c \in {"&", "=", "#", " ", "$", "[", "]", "/", "?"} |->
        CASE c = "&" -> "%26"
          [] c = "=" -> "%3D"
          [] c = "#" -> "%23"
          [] c = " " -> "%20"
          [] c = "$" -> "%24"
          [] c = "[" -> "%5B"
          [] c = "]" -> "%5D"
          [] c = "/" -> "%2F"
          [] c = "?" -> "%3F"]

encodeURIComponent(s) ==
    [i \in 1..Len(s) |->
        IF s[i] = "[url]" THEN "%5Burl%5D"
        ELSE IF s[i] \in DOMAIN Escaped THEN Escaped[s[i]] ELSE s[i]]

\* regexp.test(s) for a regular expression that is an alternation of tokens
Test(tokens, s) == \E i \in 1..Len(s) : s[i] \in tokens

(***************************************************************************)
(* Objects: own properties in insertion order, and the enumerable          *)
(* properties inherited from the prototype chain.  A property is           *)
(* [key |-> string, value |-> JavaScript value].                           *)
(***************************************************************************)
EmptyObject == [own |-> <<>>, inherited |-> <<>>]

HasOwnProperty(obj, key) == \E i \in 1..Len(obj.own) : obj.own[i].key = key

\* obj[key] = value: overwrite in place, or add as the newest own property
SetProperty(obj, key, value) ==
    IF HasOwnProperty(obj, key)
    THEN [obj EXCEPT !.own =
            [i \in 1..Len(obj.own) |->
                IF obj.own[i].key = key
                THEN [key |-> key, value |-> value] ELSE obj.own[i]]]
    ELSE [obj EXCEPT !.own = Append(obj.own, [key |-> key, value |-> value])]

\* obj[key]: the own property, else the inherited one
GetProperty(obj, key) ==
    IF HasOwnProperty(obj, key)
    THEN (CHOOSE p \in {obj.own[i] : i \in 1..Len(obj.own)} : p.key = key).value
    ELSE IF \E i \in 1..Len(obj.inherited) : obj.inherited[i].key = key
    THEN (CHOOSE p \in {obj.inherited[i] : i \in 1..Len(obj.inherited)} :
            p.key = key).value
    ELSE Undefined

\* A canonical array index: decimal digits with no leading zero
IsArrayIndex(key) ==
    /\ Len(key) >= 1
    /\ \A i \in 1..Len(key) : \E d \in 1..10 : key[i] = Digits[d]
    /\ (Len(key) > 1 => key[1] # "0")

RECURSIVE IndexValue(_)
IndexValue(key) ==
    IF key = <<>> THEN 0
    ELSE 10 * IndexValue(SubSeq(key, 1, Len(key) - 1))
         + (CHOOSE d \in 0..9 : Digits[d + 1] = key[Len(key)])

RECURSIVE Ascending(_)
Ascending(keys) ==
    IF keys = {} THEN <<>>
    ELSE LET k == CHOOSE x \in keys :
                    \A y \in keys : IndexValue(x) <= IndexValue(y)
         IN  <<k>> \o Ascending(keys \ {k})

InsertionOrderKeys(props) == [i \in 1..Len(props) |-> props[i].key]

\* The keys one object contributes to for-in: integer keys in ascending
\* numeric order, then the other keys in insertion order
OrdinaryOwnPropertyKeys(props) ==
    LET keys == InsertionOrderKeys(props)
    IN  Ascending({keys[i] : i \in {j \in 1..Len(keys) : IsArrayIndex(keys[j])}})
        \o SelectSeq(keys, LAMBDA k : ~IsArrayIndex(k))

\* for (const prop in obj): own keys, then inherited keys not shadowed
ForIn(obj) ==
    OrdinaryOwnPropertyKeys(obj.own)
    \o SelectSeq(OrdinaryOwnPropertyKeys(obj.inherited),
                 LAMBDA k : ~HasOwnProperty(obj, k))

(***************************************************************************)
(* buildURLFragmentString                                                  *)
(***************************************************************************)
\* string.slice(0, string.length - 1)
DropLast(s) == SubSeq(s, 1, Len(s) - 1)

RECURSIVE AppendPairs(_, _, _)
AppendPairs(string, pdfParams, props) ==
    IF props = <<>> THEN string
    ELSE LET prop == Head(props)
             next ==
                 IF HasOwnProperty(pdfParams, prop)
                 THEN string
                      \o encodeURIComponent(prop)
                      \o <<"=">>
                      \o encodeURIComponent(StringOf(GetProperty(pdfParams, prop)))
                      \o <<"&">>
                 ELSE string
         IN  AppendPairs(next, pdfParams, Tail(props))

buildURLFragmentStringNoSlice(pdfParams) ==
    LET string == AppendPairs(<<>>, pdfParams, ForIn(pdfParams))
    IN  IF string # <<>> THEN <<"#">> \o string ELSE string

buildURLFragmentString(pdfParams) ==
    LET string == AppendPairs(<<>>, pdfParams, ForIn(pdfParams))
    IN  IF string # <<>> THEN DropLast(<<"#">> \o string) ELSE string

(***************************************************************************)
(* Capability signals                                                      *)
(***************************************************************************)
MobileTokens == {"Mobi", "Tablet", "Android", "iPad", "iPhone"}

isMobileDevice ==
    LET nav == navigator
        ua == navigator.userAgent
        isSafariIOSDesktopMode ==
            /\ nav.platform # Undefined
            /\ nav.platform = Str(<<"MacIntel">>)
            /\ nav.maxTouchPoints # Undefined
            /\ nav.maxTouchPoints.type = "number"
            /\ nav.maxTouchPoints.num > 1
        newMobileTest ==
            IF nav.userAgentData = Undefined THEN Undefined
            ELSE nav.userAgentData.mobile
    IN  \/ isSafariIOSDesktopMode
        \/ Test(MobileTokens, ua)
        \/ newMobileTest = Bool(TRUE)

isSafariDesktop ==
    LET nav == navigator
        ua == navigator.userAgent
    IN  /\ ~isMobileDevice
        /\ nav.vendor # Undefined
        /\ Test({"Apple"}, nav.vendor.str)
        /\ Test({"Safari"}, ua)

supportsPDFsIgnoringFlag ==
    ~isMobileDevice /\ navigator.hasPromise

supportsPDFs ==
    LET pdfViewerEnabled == navigator.pdfViewerEnabled
        isModernBrowser == navigator.hasPromise
        likelySupportsPDFs == ~isMobileDevice /\ isModernBrowser
    IN  IF pdfViewerEnabled.type = "boolean"
        THEN pdfViewerEnabled.bool
        ELSE likelySupportsPDFs

(***************************************************************************)
(* The page: two containers.  A child is an element embed() created, the   *)
(* nodes parsed from markup assigned to innerHTML, or a node the page had  *)
(* before the first call.  The field "by" is the number of the embed()     *)
(* call that wrote the child (0: the page itself).                         *)
(***************************************************************************)
Nodes == {"box", "body"}

NodeId == [n \in Nodes |-> IF n = "box" THEN "box" ELSE ""]
NodeTag == [n \in Nodes |-> IF n = "box" THEN "div" ELSE "body"]

BodyElement == [type |-> "object", ref |-> "body", nodeType |-> 1]
BoxElement == [type |-> "object", ref |-> "box", nodeType |-> 1]
TextNode == [type |-> "object", ref |-> "text", nodeType |-> 3]

\* document.querySelector: an id selector, a type selector, or a SyntaxError
QuerySelector(sel) ==
    IF Len(sel) = 2 /\ sel[1] = "#"
    THEN IF \E n \in Nodes : NodeId[n] = sel[2]
         THEN [threw |-> FALSE,
               node |-> [type |-> "object", nodeType |-> 1,
                         ref |-> CHOOSE n \in Nodes : NodeId[n] = sel[2]]]
         ELSE [threw |-> FALSE, node |-> Null]
    ELSE IF Len(sel) = 1 /\ sel[1] \notin {"#", "[", "]", "$", "&", "="}
    THEN IF \E n \in Nodes : NodeTag[n] = sel[1]
         THEN [threw |-> FALSE,
               node |-> [type |-> "object", nodeType |-> 1,
                         ref |-> CHOOSE n \in Nodes : NodeTag[n] = sel[1]]]
         ELSE [threw |-> FALSE, node |-> Null]
    ELSE [threw |-> TRUE, node |-> Null]

getTargetElementOrBody(targetSelector) ==
    IF targetSelector.type = "string"
    THEN LET found == QuerySelector(targetSelector.str)
         IN  IF found.threw \/ found.node = Null
             THEN [threw |-> FALSE, node |-> BodyElement]
             ELSE found
    ELSE [threw |-> FALSE, node |-> BodyElement]

\* The result is [threw, node]: threw when querySelector raises a SyntaxError
\* or when nodeType is read from undefined
getTargetElement(targetSelector) ==
    IF targetSelector.type = "string"
    THEN QuerySelector(targetSelector.str)
    ELSE IF targetSelector.type = "undefined" \/ targetSelector.type = "null"
    THEN [threw |-> TRUE, node |-> Null]
    ELSE IF "nodeType" \in DOMAIN targetSelector /\ targetSelector.nodeType = 1
    THEN [threw |-> FALSE, node |-> targetSelector]
    ELSE [threw |-> FALSE, node |-> BodyElement]

embedError(log, msg) == Append(log, "[pdfo] " \o msg)

RECURSIVE RemoveChildren(_)
RemoveChildren(children) ==
    IF children # <<>> THEN RemoveChildren(Tail(children)) ELSE children

emptyNodeContentsNot(doc, node) == doc

emptyNodeContents(doc, node) ==
    [doc EXCEPT ![node].children = RemoveChildren(@)]

generatePDFoMarkup(doc, embedType, targetNode, targetSelector, url, pdfOpenFragment, width, height, id, title, omitInlineStyles) ==
    LET emptied == emptyNodeContents(doc, targetNode.ref)
        style ==
            (IF embedType = "embed"
             THEN <<"overflow: auto;">> ELSE <<"border: none;">>)
            \o (IF targetSelector # BodyElement
                THEN <<"width: ">> \o width \o <<"; height: ">> \o height
                     \o <<";">>
                ELSE <<"position: absolute; top: 0; right: 0; bottom: 0; left: 0; width: 100%; height: 100%;">>)
        embed ==
            [tag |-> embedType,
             allow |-> IF embedType = "iframe" THEN "fullscreen" ELSE "",
             type |-> IF embedType = "iframe" THEN "" ELSE "application/pdf",
             src |-> url \o pdfOpenFragment,
             className |-> "pdfo",
             title |-> title,
             id |-> id,
             cssText |-> IF ~omitInlineStyles THEN style ELSE <<>>,
             by |-> calls + 1]
    IN  [emptied EXCEPT
            ![targetNode.ref].classList = @ \cup {"pdfo-container"},
            ![targetNode.ref].children = Append(@, embed)]

(***************************************************************************)
(* String.prototype.replace(/\[url\]/g, replacement): every "[url]" token  *)
(* becomes the replacement, in which "$$" stands for "$" and "$&" for the  *)
(* matched text.                                                           *)
(***************************************************************************)
RECURSIVE GetSubstitution(_, _)
GetSubstitution(matched, replacement) ==
    IF replacement = <<>> THEN <<>>
    ELSE IF Len(replacement) >= 2 /\ replacement[1] = "$" /\ replacement[2] = "$"
    THEN <<"$">> \o GetSubstitution(matched, SubSeq(replacement, 3, Len(replacement)))
    ELSE IF Len(replacement) >= 2 /\ replacement[1] = "$" /\ replacement[2] = "&"
    THEN <<matched>> \o GetSubstitution(matched, SubSeq(replacement, 3, Len(replacement)))
    ELSE <<Head(replacement)>> \o GetSubstitution(matched, Tail(replacement))

RECURSIVE ReplaceUrlToken(_, _)
ReplaceUrlToken(s, replacement) ==
    IF s = <<>> THEN <<>>
    ELSE (IF Head(s) = "[url]"
          THEN GetSubstitution("[url]", replacement) ELSE <<Head(s)>>)
         \o ReplaceUrlToken(Tail(s), replacement)

fallbackHTMLDefault ==
    <<"<p>This browser does not support inline PDFs. Please download the PDF to view it: <a href='",
      "[url]",
      "'>Download PDF</a></p>">>

(***************************************************************************)
(* embed                                                                   *)
(***************************************************************************)
OptionNames ==
    {"id", "page", "pdfOpenParams", "fallbackLink", "width", "height", "title",
     "assumptionMode", "supportRedirect", "omitInlineStyles", "forceIframe",
     "fallbackPrefix"}

\* Reading any property of {} gives undefined
EmptyOptions == [f \in OptionNames |-> Undefined]

\* typeof v === 'boolean' ? v : dflt
BooleanOr(v, dflt) == IF v.type = "boolean" THEN v.bool ELSE dflt

fallbackLinkOf(opt) ==
    IF opt.fallbackLink.type = "string" \/ opt.fallbackLink.type = "boolean"
    THEN opt.fallbackLink
    ELSE Bool(TRUE)

shouldEmbedTrustingFlag(assumptionMode) ==
    IF navigator.pdfViewerEnabled.type = "boolean"
    THEN navigator.pdfViewerEnabled.bool
    ELSE supportsPDFs \/ (assumptionMode /\ ~isMobileDevice)

\* The condition of the "Attempt embed" branch
shouldEmbed(assumptionMode) ==
    supportsPDFs \/ (assumptionMode /\ ~isMobileDevice)

embedTypeNoRedirect(forceIframe, supportRedirect) ==
    IF forceIframe \/ isSafariDesktop THEN "iframe" ELSE "embed"

embedTypeOf(forceIframe, supportRedirect) ==
    IF forceIframe \/ supportRedirect \/ isSafariDesktop THEN "iframe" ELSE "embed"

fallbackWithPrefix(doc, targetNode, fallbackLink, url, opt) ==
    IF Truthy(opt.fallbackPrefix)
    THEN [doc EXCEPT ![targetNode.ref].children =
            <<[tag |-> "iframe", allow |-> "fullscreen", type |-> "",
               src |-> opt.fallbackPrefix.str \o url, className |-> "pdfo",
               title |-> <<>>, id |-> <<>>, cssText |-> <<>>,
               by |-> calls + 1]>>]
    ELSE doc

\* The fallback branch: targetNode.innerHTML = fallbackHTML.replace(...)
fallback(doc, targetNode, fallbackLink, url, opt) ==
    IF Truthy(fallbackLink)
    THEN LET fallbackHTML ==
                 IF fallbackLink.type = "string"
                 THEN fallbackLink.str ELSE fallbackHTMLDefault
         IN  [doc EXCEPT ![targetNode.ref].children =
                <<[tag |-> "#parsed", by |-> calls + 1,
                   innerHTML |-> ReplaceUrlToken(fallbackHTML, url)]>>]
    ELSE doc

\* The state embed(url, targetSelector, options) leaves, and how it ended
embed(url, targetSelector, options) ==
    LET opt == IF options = Undefined THEN EmptyOptions ELSE options
        id == IF opt.id.type = "string" THEN opt.id.str ELSE <<>>
        page == OrElse(opt.page, Null)
        given == Truthy(opt.pdfOpenParams)
        fallbackLink == fallbackLinkOf(opt)
        width == OrElse(opt.width, Str(<<"100%">>)).str
        height == OrElse(opt.height, Str(<<"100%">>)).str
        title == OrElse(opt.title, Str(<<"Embedded PDF">>)).str
        assumptionMode == BooleanOr(opt.assumptionMode, TRUE)
        supportRedirect == BooleanOr(opt.supportRedirect, FALSE)
        omitInlineStyles == BooleanOr(opt.omitInlineStyles, FALSE)
        forceIframe == BooleanOr(opt.forceIframe, FALSE)
        target == getTargetElement(targetSelector)
        targetNode == target.node
        unchanged == [document |-> document, heap |-> heap, console |-> console,
                      threw |-> FALSE, targetNode |-> targetNode,
                      judged |-> "none", embedType |-> "none"]
    IN  IF target.threw
        THEN [unchanged EXCEPT !.threw = TRUE]
        ELSE IF ~Truthy(targetNode)
        THEN [unchanged EXCEPT
                !.console = embedError(console, "Target element cannot be determined")]
        ELSE
        LET passed == IF given THEN heap[opt.pdfOpenParams.ref] ELSE EmptyObject
            pdfOpenParams ==
                IF Truthy(page) THEN SetProperty(passed, <<"page">>, page)
                ELSE passed
            heapAfter ==
                IF given THEN [heap EXCEPT ![opt.pdfOpenParams.ref] = pdfOpenParams]
                ELSE heap
            pdfOpenFragment == buildURLFragmentString(pdfOpenParams)
        IN  IF shouldEmbed(assumptionMode)
            THEN LET embedType == embedTypeOf(forceIframe, supportRedirect)
                 IN  [unchanged EXCEPT
                        !.heap = heapAfter,
                        !.judged = "present",
                        !.embedType = embedType,
                        !.document =
                            generatePDFoMarkup(document, embedType, targetNode,
                                targetSelector, url, pdfOpenFragment, width,
                                height, id, title, omitInlineStyles)]
            ELSE [unchanged EXCEPT
                    !.heap = heapAfter,
                    !.judged = "absent",
                    !.document = fallback(document, targetNode, fallbackLink, url, opt),
                    !.console =
                        embedError(console,
                            "This browser does not support embedded PDFs")]

(***************************************************************************)
(* Environments                                                            *)
(***************************************************************************)
ChromeUA == <<"Mozilla/5.0 (Windows NT 10.0) ", "Chrome", "/120.0 ", "Safari", "/537.36">>
SafariUA == <<"Mozilla/5.0 (Macintosh) Version/17.0 ", "Safari", "/605.1">>
IPhoneUA == <<"Mozilla/5.0 (", "iPhone", ") Version/17.0 ", "Mobi", "le/15E148 ", "Safari", "/604.1">>
AndroidUA == <<"Mozilla/5.0 (Linux; ", "Android", " 14) ", "Chrome", "/120.0 ", "Safari", "/537.36">>
FirefoxUA == <<"Mozilla/5.0 (X11; Linux x86_64) Gecko/20100101 Firefox/120.0">>

AppleVendor == Str(<<"Apple", " Computer, Inc.">>)
GoogleVendor == Str(<<"Google Inc.">>)

Nav(flag, ua, platform, touch, uaData, vendor, promise) ==
    [pdfViewerEnabled |-> flag, userAgent |-> ua, platform |-> platform,
     maxTouchPoints |-> touch, userAgentData |-> uaData, vendor |-> vendor,
     hasPromise |-> promise]

UAData(mobile) == [type |-> "object", mobile |-> mobile]

\* The environments embed() is exercised in
Fixtures ==
    {Nav(flag, ChromeUA, Str(<<"Win32">>), Num(0), UAData(Bool(FALSE)),
         GoogleVendor, TRUE) : flag \in {Undefined, Bool(TRUE), Bool(FALSE)}}
    \cup {Nav(Undefined, SafariUA, Str(<<"MacIntel">>), Num(0), Undefined,
              AppleVendor, TRUE),
          Nav(Undefined, SafariUA, Str(<<"MacIntel">>), Num(5), Undefined,
              AppleVendor, TRUE),
          Nav(Undefined, IPhoneUA, Str(<<"iPhone">>), Num(5), Undefined,
              AppleVendor, TRUE),
          Nav(Bool(TRUE), IPhoneUA, Str(<<"iPhone">>), Num(5), Undefined,
              AppleVendor, TRUE),
          Nav(Bool(FALSE), AndroidUA, Str(<<"Linux armv8l">>), Num(5),
              UAData(Bool(TRUE)), GoogleVendor, TRUE),
          Nav(Undefined, FirefoxUA, Undefined, Undefined, Undefined,
              Undefined, FALSE)}

\* The environments supportsPDFs() is exercised in
Navigators ==
    {Nav(flag, ua, platform, touch, uaData, vendor, promise) :
        flag \in {Undefined, Bool(TRUE), Bool(FALSE)},
        ua \in {ChromeUA, SafariUA, IPhoneUA, AndroidUA, FirefoxUA},
        platform \in {Undefined, Str(<<"MacIntel">>), Str(<<"Win32">>)},
        touch \in {Undefined, Num(0), Num(1), Num(5)},
        uaData \in {Undefined, UAData(Undefined), UAData(Bool(FALSE)),
                    UAData(Bool(TRUE))},
        vendor \in {Undefined, AppleVendor, GoogleVendor},
        promise \in BOOLEAN}

(***************************************************************************)
(* Arguments                                                               *)
(***************************************************************************)
MaxCalls == 2
MaxProps == 2

DocUrl == <<"doc.pdf">>
DollarUrl == <<"r", "$", "$", "$", "&", ".pdf">>

BoxSelector == Str(<<"#", "box">>)
NoneSelector == Str(<<"#", "none">>)
EmptySelector == Str(<<>>)

Targets ==
    {BoxSelector, NoneSelector, EmptySelector, BoxElement, BodyElement,
     TextNode, Undefined}

CustomLink == Str(<<"<a href='", "[url]", "'>PDF</a> (", "[url]", ")">>)

Given ==
    [f \in OptionNames |->
        CASE f = "id" -> {Str(<<"viewer">>)}
          [] f = "page" -> {Num(0), Num(2)}
          [] f = "pdfOpenParams" -> {Ref("P")}
          [] f = "fallbackLink" -> {Bool(TRUE), Bool(FALSE), Str(<<>>), CustomLink}
          [] f = "width" -> {Str(<<"50%">>)}
          [] f = "height" -> {Str(<<"300px">>)}
          [] f = "title" -> {Str(<<"Report">>)}
          [] f = "assumptionMode" -> {Bool(TRUE), Bool(FALSE)}
          [] f = "fallbackPrefix" -> {Str(<<"https://viewer.example/show?u=">>)}
          [] OTHER -> {Bool(TRUE)}]

With(opt, f, v) == [opt EXCEPT ![f] = v]

\* One option given
SingleOptions ==
    UNION {{With(EmptyOptions, f, v) : v \in Given[f]} : f \in OptionNames}

\* Two or three options given
PairedOptions ==
    {With(With(EmptyOptions, "page", Num(2)), "pdfOpenParams", Ref("P")),
     With(With(EmptyOptions, "fallbackPrefix", CHOOSE v \in Given["fallbackPrefix"] : TRUE),
          "fallbackLink", CustomLink),
     With(With(EmptyOptions, "assumptionMode", Bool(FALSE)), "fallbackLink", Bool(FALSE)),
     With(With(EmptyOptions, "assumptionMode", Bool(FALSE)), "fallbackLink", CustomLink),
     With(With(EmptyOptions, "assumptionMode", Bool(FALSE)), "forceIframe", Bool(TRUE)),
     With(With(EmptyOptions, "forceIframe", Bool(TRUE)), "supportRedirect", Bool(TRUE)),
     With(With(With(EmptyOptions, "assumptionMode", Bool(FALSE)), "fallbackPrefix",
               CHOOSE v \in Given["fallbackPrefix"] : TRUE), "fallbackLink", Bool(FALSE))}

Options == {Undefined} \cup SingleOptions \cup PairedOptions

CoreOptions ==
    {Undefined,
     With(EmptyOptions, "fallbackLink", Bool(FALSE)),
     With(With(EmptyOptions, "page", Num(2)), "pdfOpenParams", Ref("P"))}

LinkOptions ==
    {Undefined, With(EmptyOptions, "fallbackLink", CustomLink),
     With(With(EmptyOptions, "assumptionMode", Bool(FALSE)), "fallbackLink", CustomLink)}

Call(url, target, options) == [url |-> url, target |-> target, options |-> options]

Inputs ==
    {Call(DocUrl, t, o) : t \in {BoxSelector, NoneSelector}, o \in Options}
    \cup {Call(DocUrl, t, o) : t \in Targets, o \in CoreOptions}
    \cup {Call(DollarUrl, BoxSelector, o) : o \in LinkOptions}

Keys == {<<"page">>, <<"view">>, <<"2">>, <<"1", "0">>, <<"a", "&">>}
Values == {Str(<<"Fit">>), Str(<<"a", "&">>), Str(<<>>), Num(12), Bool(TRUE)}

RECURSIVE PropertyLists(_)
PropertyLists(n) ==
    IF n = 0 THEN {<<>>}
    ELSE LET shorter == PropertyLists(n - 1)
         IN  shorter \cup
             {Append(props, [key |-> k, value |-> v]) :
                props \in {q \in shorter : Len(q) = n - 1}, k \in Keys, v \in Values}

DistinctKeys(props) ==
    \A i, j \in 1..Len(props) : props[i].key = props[j].key => i = j

\* The objects buildURLFragmentString is exercised on
ParamObjects ==
    {[own |-> props, inherited |-> inh] :
        props \in {q \in PropertyLists(MaxProps) : DistinctKeys(q)},
        inh \in {<<>>, <<[key |-> <<"view">>, value |-> Str(<<"FitH">>)]>>}}

\* The objects a caller passes as pdfOpenParams
CallerParams ==
    {EmptyObject,
     [own |-> <<[key |-> <<"view">>, value |-> Str(<<"Fit">>)]>>, inherited |-> <<>>]}

(***************************************************************************)
(* Specifications                                                          *)
(***************************************************************************)
NoCall == [op |-> "none"]

EmptyPage ==
    [n \in Nodes |-> [children |-> <<>>, classList |-> {}]]

\* What the page put in the container before the first call
Placeholder == [tag |-> "p", by |-> 0]

Init ==
    /\ navigator \in Fixtures
    /\ document = [EmptyPage EXCEPT !["box"].children = <<Placeholder>>]
    /\ heap \in {[r \in {"P"} |-> obj] : obj \in CallerParams}
    /\ console = <<>>
    /\ calls = 0
    /\ last = NoCall
    /\ out = NoCall

Embed(url, targetSelector, options) ==
    /\ calls < MaxCalls
    /\ LET r == embed(url, targetSelector, options)
       IN  /\ document' = r.document
           /\ heap' = r.heap
           /\ console' = r.console
           /\ last' = [op |-> "embed", url |-> url,
                       targetSelector |-> targetSelector, options |-> options,
                       threw |-> r.threw, targetNode |-> r.targetNode,
                       judged |-> r.judged, embedType |-> r.embedType]
    /\ calls' = calls + 1
    /\ UNCHANGED <<navigator, out>>

Next == \E c \in Inputs : Embed(c.url, c.target, c.options)

Spec == Init /\ [][Next]_vars

\* supportsPDFs() in every environment
InitSignals ==
    /\ navigator \in Navigators
    /\ document = EmptyPage
    /\ heap = [r \in {"P"} |-> EmptyObject]
    /\ console = <<>>
    /\ calls = 0
    /\ last = NoCall
    /\ out = NoCall

SupportsPDFs ==
    /\ out' = [op |-> "supportsPDFs", value |-> supportsPDFs]
    /\ UNCHANGED <<navigator, document, heap, console, calls, last>>

SpecSignals == InitSignals /\ [][SupportsPDFs]_vars

\* buildURLFragmentString(pdfParams) on every object
InitFragment ==
    /\ navigator \in {CHOOSE n \in Fixtures : TRUE}
    /\ document = EmptyPage
    /\ heap \in {[r \in {"P"} |-> obj] : obj \in ParamObjects}
    /\ console = <<>>
    /\ calls = 0
    /\ last = NoCall
    /\ out = NoCall

BuildURLFragmentString ==
    /\ out' = [op |-> "buildURLFragmentString",
               value |-> buildURLFragmentString(heap["P"])]
    /\ UNCHANGED <<navigator, document, heap, console, calls, last>>

SpecFragment == InitFragment /\ [][BuildURLFragmentString]_vars

(***************************************************************************)
(* Vocabulary of the properties.  None of it is used by the operations     *)
(* above: the properties state what the text of the specification says,    *)
(* in their own words.                                                     *)
(***************************************************************************)
UnsupportedLine == "[pdfo] This browser does not support embedded PDFs"
UnresolvedLine == "[pdfo] Target element cannot be determined"

LastEmbed == last.op = "embed"

\* The last call was an embed() whose target resolved to a container
Live == LastEmbed /\ ~last.threw /\ last.targetNode # Null

TargetChildren == document[last.targetNode.ref].children

LastOptions == IF last.options = Undefined THEN EmptyOptions ELSE last.options

IsElement(child) == child.tag \in {"embed", "iframe"}

\* The children of the target that the last call wrote
Written == {i \in 1..Len(TargetChildren) : TargetChildren[i].by = calls}

InsertedElement == \E i \in Written : IsElement(TargetChildren[i])

DeclaredSupport == navigator.pdfViewerEnabled

MobileClassified ==
    \/ \E i \in 1..Len(navigator.userAgent) :
          navigator.userAgent[i] \in {"Mobi", "Tablet", "Android", "iPad", "iPhone"}
    \/ /\ navigator.platform = Str(<<"MacIntel">>)
       /\ navigator.maxTouchPoints.type = "number"
       /\ navigator.maxTouchPoints.num > 1
    \/ /\ navigator.userAgentData # Undefined
       /\ navigator.userAgentData.mobile = Bool(TRUE)

DesktopSafari ==
    /\ ~MobileClassified
    /\ navigator.vendor # Undefined
    /\ \E i \in 1..Len(navigator.vendor.str) : navigator.vendor.str[i] = "Apple"
    /\ \E i \in 1..Len(navigator.userAgent) : navigator.userAgent[i] = "Safari"

IsTrue(v) == v = Bool(TRUE)

\* assumptionMode is on unless the caller passed false
AssumptionOn == LastOptions.assumptionMode # Bool(FALSE)

\* fallbackLink is truthy: absent (the built-in template), true, or a
\* non-empty string
LinkConfigured ==
    /\ LastOptions.fallbackLink # Bool(FALSE)
    /\ LastOptions.fallbackLink # Str(<<>>)

LinkTemplate ==
    IF LastOptions.fallbackLink.type = "string"
    THEN LastOptions.fallbackLink.str
    ELSE fallbackHTMLDefault

\* template with every "[url]" token replaced by the text of url, as it is
RECURSIVE Substituted(_, _)
Substituted(template, url) ==
    IF template = <<>> THEN <<>>
    ELSE (IF Head(template) = "[url]" THEN url ELSE <<Head(template)>>)
         \o Substituted(Tail(template), url)

PrefixConfigured == LastOptions.fallbackPrefix.type = "string"

(***************************************************************************)
(* C1                                                                      *)
(***************************************************************************)
\* C1 (as stated): when navigator.pdfViewerEnabled is a boolean, embed()
\* inserts an embed/iframe element into the target if and only if the flag
\* is true, whatever assumptionMode and the device classification are.
C1_InsertedIffDeclared ==
    (Live /\ DeclaredSupport.type = "boolean")
        => (InsertedElement <=> DeclaredSupport.bool)

\* C1 (amended): when navigator.pdfViewerEnabled is a boolean, embed()
\* inserts an embed/iframe element into the target if and only if the flag
\* is true, or assumptionMode is on and the device is not classified as
\* mobile; when it inserts none it takes the fallback path and logs the
\* unsupported-browser line.
C1_InsertedIffDeclaredOrAssumed ==
    (Live /\ DeclaredSupport.type = "boolean")
        => /\ InsertedElement <=>
                (DeclaredSupport.bool \/ (AssumptionOn /\ ~MobileClassified))
           /\ ~InsertedElement =>
                (last.judged = "absent" /\ console[Len(console)] = UnsupportedLine)

\* A call with the flag false and assumptionMode off took the fallback path,
\* on a device that is not mobile
C1_Witness ==
    /\ Live
    /\ DeclaredSupport = Bool(FALSE)
    /\ ~MobileClassified
    /\ ~AssumptionOn
    /\ ~InsertedElement
    /\ last.judged = "absent"

(***************************************************************************)
(* C2                                                                      *)
(***************************************************************************)
\* C2 (as stated): after the second of two embed() calls on a live
\* container, the container holds content of the second call only: no child
\* written by the call before it remains.
C2_OnlySecondCallContent ==
    (Live /\ calls >= 2)
        => \A i \in 1..Len(TargetChildren) : TargetChildren[i].by # calls - 1

\* C2 (amended): after the second of two embed() calls on a live container,
\* provided the second call judges support present or has a truthy
\* fallbackLink, the container holds content and all of it was written by
\* the second call.
C2_OnlySecondCallContentWhenWritten ==
    (Live /\ calls >= 2 /\ (last.judged = "present" \/ LinkConfigured))
        => /\ TargetChildren # <<>>
           /\ \A i \in 1..Len(TargetChildren) : TargetChildren[i].by = calls

\* The second call wrote the link fallback over an element an earlier call
\* had embedded (the container still carries the class that call added)
C2_Witness ==
    /\ Live
    /\ calls = 2
    /\ last.judged = "absent"
    /\ LinkConfigured
    /\ "pdfo-container" \in document[last.targetNode.ref].classList
    /\ Len(TargetChildren) = 1
    /\ TargetChildren[1].tag = "#parsed"
    /\ TargetChildren[1].by = 2

(***************************************************************************)
(* C3                                                                      *)
(***************************************************************************)
\* C3: supportsPDFs() returns the declared-support flag when it is a
\* boolean; when the flag is absent it returns true exactly when the device
\* is not classified as mobile and Promise exists, so false on every mobile
\* device.
C3_SupportsPDFs ==
    (out.op = "supportsPDFs")
        => /\ DeclaredSupport.type = "boolean" => out.value = DeclaredSupport.bool
           /\ (DeclaredSupport = Undefined /\ MobileClassified) => ~out.value
           /\ DeclaredSupport = Undefined =>
                (out.value <=> (~MobileClassified /\ navigator.hasPromise))

\* supportsPDFs() returned true on a mobile device that declares support
C3_Witness ==
    /\ out.op = "supportsPDFs"
    /\ DeclaredSupport = Bool(TRUE)
    /\ MobileClassified
    /\ out.value

(***************************************************************************)
(* C4                                                                      *)
(***************************************************************************)
\* C4: when support is judged absent, no fallbackPrefix is configured and
\* fallbackLink is truthy, embed() embeds no element, the content of the
\* target is the fallback template with every [url] replaced by the url,
\* and the unsupported-browser line is the last line logged.
C4_LinkFallbackContent ==
    (Live /\ last.judged = "absent" /\ ~PrefixConfigured /\ LinkConfigured)
        => /\ ~InsertedElement
           /\ TargetChildren =
                <<[tag |-> "#parsed", by |-> calls,
                   innerHTML |-> Substituted(LinkTemplate, last.url)]>>
           /\ console[Len(console)] = UnsupportedLine

(***************************************************************************)
(* C5                                                                      *)
(***************************************************************************)
\* C5 (as stated): when support is judged absent and a fallbackPrefix is
\* configured, the target ends with exactly one iframe child whose src is
\* the prefix followed by the raw url, and no link-fallback markup.
C5_RedirectFallback ==
    (Live /\ last.judged = "absent" /\ PrefixConfigured)
        => /\ Len(TargetChildren) = 1
           /\ TargetChildren[1].tag = "iframe"
           /\ TargetChildren[1].src = LastOptions.fallbackPrefix.str \o last.url

\* C5 (amended): when support is judged absent and a fallbackPrefix is
\* configured, the prefix is ignored: embed() inserts no iframe or embed
\* element, and when fallbackLink is truthy the target holds the
\* link-fallback markup and nothing else.
C5_PrefixIgnored ==
    (Live /\ last.judged = "absent" /\ PrefixConfigured)
        => /\ ~InsertedElement
           /\ LinkConfigured =>
                (/\ Len(TargetChildren) = 1
                 /\ TargetChildren[1].tag = "#parsed"
                 /\ TargetChildren[1].by = calls)

\* A call with both a fallbackPrefix and a fallbackLink, support absent,
\* wrote the link-fallback markup
C5_Witness ==
    /\ Live
    /\ last.judged = "absent"
    /\ PrefixConfigured
    /\ LastOptions.fallbackLink = CustomLink
    /\ Len(TargetChildren) = 1
    /\ TargetChildren[1].tag = "#parsed"

(***************************************************************************)
(* C6                                                                      *)
(***************************************************************************)
\* C6: embed() always returns normally, whatever the url, the target and
\* the options are: it never throws.
C6_NeverThrows == LastEmbed => ~last.threw

(***************************************************************************)
(* C7                                                                      *)
(***************************************************************************)
\* C7: an embed() call whose selector matches no element logs the
\* unresolved-target line, once, and changes no container: children,
\* content and class lists are as before.
C7_UnresolvedMutatesNothing ==
    [][(calls' = calls + 1 /\ last'.targetSelector = NoneSelector)
        => /\ document' = document
           /\ console' = Append(console, UnresolvedLine)
           /\ ~last'.threw]_vars

\* A call with options given, on a selector that matches nothing
C7_Witness ==
    /\ LastEmbed
    /\ last.targetSelector = NoneSelector
    /\ last.options # Undefined
    /\ last.targetNode = Null
    /\ console[Len(console)] = UnresolvedLine

(***************************************************************************)
(* C8                                                                      *)
(***************************************************************************)
OwnProps == heap["P"].own

EncodedPair(prop) ==
    encodeURIComponent(prop.key) \o <<"=">>
        \o encodeURIComponent(StringOf(prop.value))

\* The encoded pairs of props[order[1]], props[order[2]], ... joined by "&"
RECURSIVE Joined(_, _)
Joined(props, order) ==
    IF order = <<>> THEN <<>>
    ELSE IF Len(order) = 1 THEN EncodedPair(props[order[1]])
    ELSE EncodedPair(props[order[1]]) \o <<"&">> \o Joined(props, Tail(order))

Orders(n) == {f \in [1..n -> 1..n] : \A i, j \in 1..n : f[i] = f[j] => i = j}

IntegerLike(key) ==
    /\ key # <<>>
    /\ \A i \in 1..Len(key) :
          key[i] \in {"0", "1", "2", "3", "4", "5", "6", "7", "8", "9"}
    /\ (Len(key) > 1 => key[1] # "0")

RECURSIVE Numeric(_)
Numeric(key) ==
    IF key = <<>> THEN 0
    ELSE 10 * Numeric(SubSeq(key, 1, Len(key) - 1))
         + (CHOOSE d \in 0..9 : NumberToString(d) = <<key[Len(key)]>>)

\* order lists the properties as for-in visits them: integer-like keys
\* first, ascending, then the other keys as they were inserted
EnumerationOrder(props, order) ==
    \A i, j \in 1..Len(props) :
        i < j =>
            LET a == props[order[i]].key
                b == props[order[j]].key
            IN  /\ IntegerLike(b) => IntegerLike(a)
                /\ (IntegerLike(a) /\ IntegerLike(b)) => Numeric(a) < Numeric(b)
                /\ (~IntegerLike(a) /\ ~IntegerLike(b)) => order[i] < order[j]

InsertionOrder(props) == [i \in 1..Len(props) |-> i]

CountOf(c, s) == Cardinality({i \in 1..Len(s) : s[i] = c})

\* C8 (as stated): buildURLFragmentString returns "" for an empty mapping
\* and otherwise "#" followed by one encoded key=value pair per own entry,
\* in insertion order, joined by "&", with no trailing "&".
C8_FragmentInInsertionOrder ==
    (out.op = "buildURLFragmentString")
        => IF OwnProps = <<>> THEN out.value = <<>>
           ELSE /\ out.value = <<"#">> \o Joined(OwnProps, InsertionOrder(OwnProps))
                /\ out.value[Len(out.value)] # "&"

\* C8 (amended): buildURLFragmentString returns "" for a mapping with no
\* own entry and otherwise "#" followed by one encoded key=value pair per
\* own entry, in property enumeration order (integer-like keys first, in
\* ascending numeric order, then the other keys in insertion order), joined
\* by "&", with no trailing "&".
C8_FragmentInEnumerationOrder ==
    (out.op = "buildURLFragmentString")
        => IF OwnProps = <<>> THEN out.value = <<>>
           ELSE /\ \E order \in Orders(Len(OwnProps)) :
                      /\ EnumerationOrder(OwnProps, order)
                      /\ out.value = <<"#">> \o Joined(OwnProps, order)
                /\ Head(out.value) = "#"
                /\ out.value[Len(out.value)] # "&"
                /\ CountOf("&", out.value) = Len(OwnProps) - 1
                /\ CountOf("=", out.value) = Len(OwnProps)

\* A fragment was built from a mapping whose second entry has an
\* integer-like key and whose first has not
C8_Witness ==
    /\ out.op = "buildURLFragmentString"
    /\ Len(OwnProps) = 2
    /\ ~IntegerLike(OwnProps[1].key)
    /\ IntegerLike(OwnProps[2].key)
    /\ Head(out.value) = "#"

(***************************************************************************)
(* C9                                                                      *)
(***************************************************************************)
\* C9 (as stated): when support is judged present, the inserted element is
\* an iframe if and only if forceIframe is set or the device is desktop
\* Safari, and a native embed element otherwise.
C9_IframeIffForcedOrSafari ==
    (Live /\ last.judged = "present")
        => /\ Len(TargetChildren) = 1
           /\ TargetChildren[1].tag =
                (IF IsTrue(LastOptions.forceIframe) \/ DesktopSafari
                 THEN "iframe" ELSE "embed")

\* C9 (amended): when support is judged present, the inserted element is an
\* iframe if and only if forceIframe is set, supportRedirect is set or the
\* device is desktop Safari, and a native embed element otherwise.
C9_IframeIffForcedRedirectOrSafari ==
    (Live /\ last.judged = "present")
        => /\ Len(TargetChildren) = 1
           /\ TargetChildren[1].tag =
                (IF \/ IsTrue(LastOptions.forceIframe)
                    \/ IsTrue(LastOptions.supportRedirect)
                    \/ DesktopSafari
                 THEN "iframe" ELSE "embed")

\* supportRedirect alone, off Safari, produced an iframe
C9_Witness ==
    /\ Live
    /\ last.judged = "present"
    /\ IsTrue(LastOptions.supportRedirect)
    /\ ~IsTrue(LastOptions.forceIframe)
    /\ ~DesktopSafari
    /\ TargetChildren[1].tag = "iframe"

(***************************************************************************)
(* C10                                                                     *)
(***************************************************************************)
\* C10: embed() never modifies the options object of the caller or the
\* pdfOpenParams object it refers to, so no call leaves anything behind for
\* a later call that reuses the object.
C10_OptionsReadOnly == [][heap' = heap]_vars

====
